---- MODULE Spec2Model ----
(***************************************************************************)
(* A model of the suffix-fold crate: the phrase trie (src/src/tree.rs),    *)
(* the tokenizer and suffix generator (src/src/string_handlers.rs) and the *)
(* diagonal index enumerator (src/src/rule.rs).                            *)
(*                                                                         *)
(* A Tree is the record [name, children]; children is a function from the  *)
(* child keys to the child Trees, as HashMap<String, Tree> is.  A String   *)
(* that the tokenizer reads is a sequence of one-character strings; a      *)
(* token is a TLA+ string.  An Option is None or Some(v).                  *)
(***************************************************************************)
EXTENDS Integers, Sequences, FiniteSets, TLC

VARIABLES tree, added, res, corpus, indices, dims

vars == <<tree, added, res, corpus, indices, dims>>

(* ------------------------------ bounds --------------------------------- *)

\* the longest phrase or path handed to the trie
MaxPhraseLen == 3

\* the number of effective add_phrase calls in one behaviour
MaxAdds == 2

\* the tokens the trie's callers draw from
Tokens == {"a", "b"}

(* ------------------------------ helpers -------------------------------- *)

None == [some |-> FALSE]

Some(v) == [some |-> TRUE, val |-> v]

SeqsUpTo(S, n) == UNION {[1..k -> S] : k \in 0..n}

Phrases == SeqsUpTo(Tokens, MaxPhraseLen)

IsPrefix(p, q) == Len(p) <= Len(q) /\ SubSeq(q, 1, Len(p)) = p

Max(S) == CHOOSE x \in S : \A y \in S : y <= x

(* ------------------------------ tree.rs -------------------------------- *)

\* HashMap::default()
EmptyMap == <<>>

New(name) == [name |-> name, children |-> EmptyMap]

Default == New("root")

\* HashMap::keys() yields every key once, in an order the map chooses
KeyOrders(children) ==
    LET K == DOMAIN children
    IN  {s \in [1..Cardinality(K) -> K] : \A k \in K : \E i \in DOMAIN s : s[i] = k}

\* insert(subkey, Tree::new(subkey)): a fresh child even when one is there
InsertFresh(children, subkey) == (subkey :> New(subkey)) @@ children

\* or_insert_with(Tree::default): the new child gets the root's name
OrInsertDefault(children, subkey) ==
    IF subkey \in DOMAIN children
    THEN children
    ELSE (subkey :> Default) @@ children

\* children.entry(subkey).or_insert_with(|| Tree::new(subkey)), the map after it
OrInsertWith(children, subkey) ==
    IF subkey \in DOMAIN children
    THEN children
    ELSE (subkey :> New(subkey)) @@ children

RECURSIVE AddPhraseNoAdvance(_, _)
\* a walk that stays on the node whenever the child is already there
AddPhraseNoAdvance(t, phrase) ==
    IF phrase = <<>>
    THEN t
    ELSE LET subkey == Head(phrase)
         IN  IF subkey \in DOMAIN t.children
             THEN AddPhraseNoAdvance(t, Tail(phrase))
             ELSE [t EXCEPT !.children =
                     (subkey :> AddPhraseNoAdvance(New(subkey), Tail(phrase))) @@ @]

RECURSIVE AddPhrase(_, _)
\* the tree after add_phrase(phrase): node moves to the entry of each subkey
AddPhrase(t, phrase) ==
    IF phrase = <<>>
    THEN t
    ELSE LET subkey == Head(phrase)
             kids   == OrInsertWith(t.children, subkey)
         IN  [t EXCEPT !.children =
                 [kids EXCEPT ![subkey] = AddPhrase(kids[subkey], Tail(phrase))]]

NumChildren(t) == Cardinality(DOMAIN t.children)

\* a depth that looks one level down only
GetDepthOneLevel(t) == IF NumChildren(t) = 0 THEN 0 ELSE 1

RECURSIVE GetDepth(_)
GetDepth(t) ==
    IF NumChildren(t) = 0
    THEN 0
    ELSE 1 + Max({GetDepth(t.children[k]) : k \in DOMAIN t.children})

\* the values children_names() can return
ChildrenNames(t) == KeyOrders(t.children)

StepDown(t, name) ==
    IF name \in DOMAIN t.children THEN Some(t.children[name]) ELSE None

RECURSIVE WalkPathShort(_, _)
\* a walk that leaves out the last key of the path
WalkPathShort(node, path) ==
    IF Len(path) <= 1
    THEN Some(node)
    ELSE LET next == StepDown(node, Head(path))
         IN  IF next.some THEN WalkPathShort(next.val, Tail(path)) ELSE None

RECURSIVE WalkPathLenient(_, _)
\* a walk that stops on the last node it found instead of returning None
WalkPathLenient(node, path) ==
    IF path = <<>>
    THEN Some(node)
    ELSE LET next == StepDown(node, Head(path))
         IN  IF next.some THEN WalkPathLenient(next.val, Tail(path)) ELSE Some(node)

RECURSIVE WalkPath(_, _)
\* the loop of names_at_path: the node reached, or None at the first missing key
WalkPath(node, path) ==
    IF path = <<>>
    THEN Some(node)
    ELSE LET next == StepDown(node, Head(path))
         IN  IF next.some THEN WalkPath(next.val, Tail(path)) ELSE None

\* the values names_at_path(path) can return
NamesAtPath(t, path) ==
    LET end == WalkPath(t, path)
    IN  IF end.some THEN {Some(v) : v \in ChildrenNames(end.val)} ELSE {None}

\* a span that counts the whole chain below the child
SpanMapDeep(t) ==
    [name \in DOMAIN t.children |-> GetDepth(StepDown(t, name).val)]

SpanMap(t) ==
    [name \in DOMAIN t.children |-> NumChildren(StepDown(t, name).val)]

DepthMap(t) ==
    [name \in DOMAIN t.children |-> GetDepth(StepDown(t, name).val)]

(* --------------------------- the trie's calls -------------------------- *)

Idle == [op |-> "none"]

\* A behaviour of the trie is an ingestion, add_phrase calls on a fresh tree,
\* and then one query.  The queries take &self and change nothing, and an
\* add_phrase call reads nothing of res, so every (tree, added, res) that any
\* interleaving of calls reaches is reached this way too.
Ingesting == res.op \in {"none", "add_phrase"}

InitTrie ==
    /\ tree \in {Default, New("a")}
    /\ added = {}
    /\ res = Idle
    /\ corpus = <<>>
    /\ indices = <<>>
    /\ dims = <<>>

AddPhraseCall ==
    /\ Ingesting
    /\ \E phrase \in Phrases :
          /\ Cardinality(added \cup {phrase}) <= MaxAdds
          /\ tree' = AddPhrase(tree, phrase)
          /\ added' = added \cup {phrase}
          /\ res' = [op |-> "add_phrase", arg |-> phrase, fresh |-> phrase \notin added]
          /\ UNCHANGED <<corpus, indices, dims>>

NamesAtPathCall ==
    /\ Ingesting
    /\ \E path \in Phrases :
          \E r \in NamesAtPath(tree, path) :
              /\ res' = [op |-> "names_at_path", arg |-> path, out |-> r]
              /\ UNCHANGED <<tree, added, corpus, indices, dims>>

StepDownCall ==
    /\ Ingesting
    /\ \E name \in Tokens :
          /\ res' = [op |-> "step_down", arg |-> name, out |-> StepDown(tree, name)]
          /\ UNCHANGED <<tree, added, corpus, indices, dims>>

\* span_map() on the root; the subtree of a node named n is itself a tree
\* that add_phrase calls on Tree::new(n) reach, and Init starts from such trees
SpanMapCall ==
    /\ Ingesting
    /\ res' = [op |-> "span_map", out |-> SpanMap(tree)]
    /\ UNCHANGED <<tree, added, corpus, indices, dims>>

DepthMapCall ==
    /\ Ingesting
    /\ res' = [op |-> "depth_map", out |-> DepthMap(tree)]
    /\ UNCHANGED <<tree, added, corpus, indices, dims>>

Next ==
    \/ AddPhraseCall
    \/ NamesAtPathCall
    \/ StepDownCall
    \/ SpanMapCall
    \/ DepthMapCall

Spec == InitTrie /\ [][Next]_vars

(* ------------------------- claims about the trie ----------------------- *)

Range(s) == {s[i] : i \in DOMAIN s}

Front(s) == SubSeq(s, 1, Len(s) - 1)

Last(s) == s[Len(s)]

\* the added phrases that run through path and go on below it
Through(path) == {q \in added : IsPrefix(path, q) /\ Len(q) > Len(path)}

\* C1: add_phrase is idempotent: after add_phrase(p) on any trie that
\* add_phrase calls reach, for any phrase p (the empty one too), a second
\* add_phrase(p) leaves the structure exactly as the first left it; and an
\* add_phrase of any path that is already there leaves the trie as it is (no
\* node is created).
C1_Idempotent ==
    /\ res.op = "add_phrase" => AddPhrase(tree, res.arg) = tree
    /\ Ingesting =>
          \A p \in Phrases : WalkPath(tree, p).some => AddPhrase(tree, p) = tree

\* a phrase of two or more tokens was added a second time
C1_Witness ==
    /\ res.op = "add_phrase"
    /\ Len(res.arg) >= 2
    /\ ~res.fresh

\* C2: monotonic growth: every node that exists before a step exists after it
\* at the same path with the same name, the root included; no step removes a
\* child or renames one.
C2_MonotonicGrowth ==
    [][tree' # tree =>
          \A path \in Phrases :
             WalkPath(tree, path).some =>
                /\ WalkPath(tree', path).some
                /\ WalkPath(tree', path).val.name = WalkPath(tree, path).val.name]_vars

\* an add_phrase call gave a second child to a node that had one
C2_Witness ==
    /\ res.op = "add_phrase"
    /\ res.fresh
    /\ \E q \in added :
          /\ q # res.arg
          /\ Len(q) = Len(res.arg)
          /\ Len(q) >= 2
          /\ Front(q) = Front(res.arg)

\* C3: path lookup: when one non-empty phrase p = [t1..tn] is all that was
\* added to an empty trie, names_at_path([t1..t(n-1)]) is present and holds tn
\* (for n = 1 the path is empty and the result lists the root's children).
C3_PathLookup ==
    \A p \in Phrases :
        (/\ p # <<>>
         /\ added = {p}
         /\ res.op = "names_at_path"
         /\ res.arg = Front(p))
        => /\ res.out.some
           /\ Last(p) \in Range(res.out.val)

\* the lookup ran on the trie of a single phrase of full length
C3_Witness ==
    /\ res.op = "names_at_path"
    /\ \E p \in Phrases : Len(p) = MaxPhraseLen /\ added = {p} /\ res.arg = Front(p)

\* C4: absence: names_at_path(path) returns None whenever some token of path
\* was never ingested at that position (no added phrase agrees with path up
\* to and including that token), and step_down(name) returns None whenever no
\* added phrase starts with name.
C4_Absence ==
    /\ (/\ res.op = "names_at_path"
        /\ \E i \in 1..Len(res.arg) :
              \A q \in added : ~IsPrefix(SubSeq(res.arg, 1, i), q))
       => res.out = None
    /\ (/\ res.op = "step_down"
        /\ \A q \in added : q = <<>> \/ Head(q) # res.arg)
       => res.out = None

\* a lookup left a trie of two phrases at its last token only
C4_Witness ==
    /\ res.op = "names_at_path"
    /\ Cardinality(added) = 2
    /\ Len(res.arg) >= 2
    /\ \E q \in added : IsPrefix(Front(res.arg), q)
    /\ \A q \in added : ~IsPrefix(res.arg, q)
    /\ res.out = None

\* C6: span_map is one level deep: its keys are the node's immediate children
\* (the first tokens of the added phrases) and it maps a child c to the number
\* of distinct tokens that follow c in an added phrase, whatever lies deeper;
\* a leaf child maps to 0.
C6_SpanMap ==
    res.op = "span_map" =>
        /\ DOMAIN res.out = {Head(q) : q \in Through(<<>>)}
        /\ \A c \in DOMAIN res.out :
              res.out[c] = Cardinality({q[2] : q \in Through(<<c>>)})

\* span_map ran on the root of the chain a -> b -> a and gave 1 for a
C6_Witness ==
    /\ res.op = "span_map"
    /\ added = {<<"a", "b", "a">>}
    /\ res.out["a"] = 1

\* C7: depth_map recurses over the whole subtree: its keys are the node's
\* immediate children and it maps a child c to the length of the longest
\* chain of tokens below c (0 for a childless c).
C7_DepthMap ==
    res.op = "depth_map" =>
        /\ DOMAIN res.out = {Head(q) : q \in Through(<<>>)}
        /\ \A c \in DOMAIN res.out :
              res.out[c] = Max({Len(q) - 1 : q \in {r \in added : IsPrefix(<<c>>, r)}})

\* depth_map ran on the root of the chain a -> b -> a and gave 2 for a
C7_Witness ==
    /\ res.op = "depth_map"
    /\ added = {<<"a", "b", "a">>}
    /\ res.out["a"] = 2

(* -------------------------- string_handlers.rs ------------------------- *)

\* the longest corpus text
MaxCorpusLen == 5

\* the characters of a corpus text: letters of both cases, a digit, a space
\* and two of the delimiters
Chars == {"a", "b", "B", "1", " ", ".", "!"}

Delimiters == {".", "!", "?", ";"}

IsWhitespace(c) == c \in {" "}

IsAlphabetic(c) == c \in {"a", "b", "A", "B"}

ToLowercase(c) == IF c = "A" THEN "a" ELSE IF c = "B" THEN "b" ELSE c

\* the String of a sequence of characters
RECURSIVE Str(_)
Str(cs) == IF cs = <<>> THEN "" ELSE Head(cs) \o Str(Tail(cs))

RECURSIVE SplitOn(_, _)
\* str::split: the pieces between the separators, the empty ones too
SplitOn(s, seps) ==
    IF s = <<>>
    THEN << <<>> >>
    ELSE LET rest == SplitOn(Tail(s), seps)
         IN  IF Head(s) \in seps
             THEN << <<>> >> \o rest
             ELSE << <<Head(s)>> \o Head(rest) >> \o Tail(rest)

\* str::split_terminator: split, without the last piece when it is empty
SplitTerminator(s, seps) ==
    LET parts == SplitOn(s, seps)
    IN  IF parts[Len(parts)] = <<>> THEN SubSeq(parts, 1, Len(parts) - 1) ELSE parts

RECURSIVE TrimStart(_)
TrimStart(s) ==
    IF s # <<>> /\ IsWhitespace(Head(s)) THEN TrimStart(Tail(s)) ELSE s

RECURSIVE TrimEnd(_)
TrimEnd(s) ==
    IF s # <<>> /\ IsWhitespace(s[Len(s)])
    THEN TrimEnd(SubSeq(s, 1, Len(s) - 1))
    ELSE s

Trim(s) == TrimEnd(TrimStart(s))

\* str::split_ascii_whitespace: the non-empty pieces between whitespace
SplitAsciiWhitespace(s) ==
    SelectSeq(SplitOn(s, {c \in Chars : IsWhitespace(c)}), LAMBDA w : w # <<>>)

RECURSIVE Join(_, _)
Join(words, sep) ==
    IF words = <<>>
    THEN <<>>
    ELSE IF Len(words) = 1
         THEN Head(words)
         ELSE Head(words) \o sep \o Join(Tail(words), sep)

\* s.chars().filter(|c| c.is_alphabetic()).collect::<String>().to_lowercase()
CleanWord(w) ==
    LET kept == SelectSeq(w, IsAlphabetic)
    IN  [i \in 1..Len(kept) |-> ToLowercase(kept[i])]

CleanSentence(sentence) ==
    LET words == SplitAsciiWhitespace(sentence)
    IN  Join([i \in 1..Len(words) |-> CleanWord(words[i])], <<" ">>)

\* a split_corpus that trims each segment before it drops the empty ones
SplitCorpusTrimFirst(x) ==
    LET parts   == SplitTerminator(x, Delimiters)
        trimmed == [i \in 1..Len(parts) |-> Trim(parts[i])]
        kept    == SelectSeq(trimmed, LAMBDA seg : seg # <<>>)
    IN  [i \in 1..Len(kept) |-> CleanSentence(kept[i])]

SplitCorpus(x) ==
    LET kept == SelectSeq(SplitTerminator(x, Delimiters), LAMBDA seg : seg # <<>>)
    IN  [i \in 1..Len(kept) |-> CleanSentence(Trim(kept[i]))]

SplitSentence(sentence) ==
    LET words == SplitAsciiWhitespace(sentence)
    IN  [i \in 1..Len(words) |-> Str(words[i])]

\* a loop that runs to xs.len() inclusive and pushes the empty slice too
SuffixesInclusive(xs) == [i \in 1..(Len(xs) + 1) |-> SubSeq(xs, i, Len(xs))]

\* acc after the loop: xs[i..] for i in 0..xs.len()
Suffixes(xs) == [i \in 1..Len(xs) |-> SubSeq(xs, i, Len(xs))]

(* ------------------------- tree.rs: from_corpus ------------------------ *)

RECURSIVE AddPhrases(_, _)
\* the inner loop of from_corpus: add_phrase of each suffix in turn
AddPhrases(t, phrases) ==
    IF phrases = <<>>
    THEN t
    ELSE AddPhrases(AddPhrase(t, Head(phrases)), Tail(phrases))

RECURSIVE IngestSentences(_, _)
\* the outer loop of from_corpus
IngestSentences(t, sentences) ==
    IF sentences = <<>>
    THEN t
    ELSE IngestSentences(AddPhrases(t, Suffixes(SplitSentence(Head(sentences)))),
                         Tail(sentences))

\* a from_corpus that reads the whole corpus as one sentence
FromCorpusJoined(x) ==
    IngestSentences(Default, <<Join(SplitCorpus(x), <<" ">>)>>)

FromCorpus(x) == IngestSentences(Default, SplitCorpus(x))

(* ----------------------- the calls on a corpus text -------------------- *)

InitCorpus ==
    /\ corpus \in SeqsUpTo(Chars, MaxCorpusLen)
    /\ tree = Default
    /\ added = {}
    /\ res = Idle
    /\ indices = <<>>
    /\ dims = <<>>

\* the sentences of the corpus, as split_sentence tokenizes them
Sentences == LET ss == SplitCorpus(corpus) IN [i \in 1..Len(ss) |-> SplitSentence(ss[i])]

FromCorpusCall ==
    /\ res = Idle
    /\ tree' = FromCorpus(corpus)
    /\ res' = [op |-> "from_corpus"]
    /\ UNCHANGED <<added, corpus, indices, dims>>

SplitCorpusCall ==
    /\ res = Idle
    /\ res' = [op |-> "split_corpus", out |-> SplitCorpus(corpus)]
    /\ UNCHANGED <<tree, added, corpus, indices, dims>>

\* split_sentence on a sentence that split_corpus gave
SplitSentenceCall ==
    /\ res = Idle
    /\ \E sentence \in Range(SplitCorpus(corpus)) :
          res' = [op |-> "split_sentence", arg |-> sentence, out |-> SplitSentence(sentence)]
    /\ UNCHANGED <<tree, added, corpus, indices, dims>>

\* suffixes on the tokens of a sentence, as from_corpus calls it
SuffixesCall ==
    /\ res = Idle
    /\ \E xs \in Range(Sentences) :
          res' = [op |-> "suffixes", arg |-> xs, out |-> Suffixes(xs)]
    /\ UNCHANGED <<tree, added, corpus, indices, dims>>

NextCorpus ==
    \/ FromCorpusCall
    \/ SplitCorpusCall
    \/ SplitSentenceCall
    \/ SuffixesCall

SpecCorpus == InitCorpus /\ [][NextCorpus]_vars

(* ------------------------ claims about a corpus ------------------------ *)

RECURSIVE AllPaths(_)
\* every path from the root of t to a node of t
AllPaths(t) ==
    {<<>>} \cup UNION {{<<k>> \o p : p \in AllPaths(t.children[k])} : k \in DOMAIN t.children}

\* the non-empty contiguous runs of tokens of one tokenized sentence
Runs(xs) == {SubSeq(xs, i, j) : i \in 1..Len(xs), j \in 1..Len(xs)} \ {<<>>}

\* C5: from_corpus never crosses a sentence boundary and ingests every suffix:
\* in the tree from_corpus returns, the non-empty paths from the root are
\* exactly the contiguous runs of tokens inside one tokenized sentence.
C5_FromCorpus ==
    res.op = "from_corpus" =>
        AllPaths(tree) \ {<<>>} = UNION {Runs(Sentences[i]) : i \in DOMAIN Sentences}

\* from_corpus read two sentences in a row, and the last token of the first
\* followed by the first token of the second is no path
C5_Witness ==
    /\ res.op = "from_corpus"
    /\ \E i \in DOMAIN Sentences :
          /\ i + 1 \in DOMAIN Sentences
          /\ Len(Sentences[i]) >= 2
          /\ Sentences[i + 1] # <<>>
          /\ ~WalkPath(tree, <<Sentences[i][Len(Sentences[i])], Sentences[i + 1][1]>>).some

\* C8: suffix completeness: suffixes(xs) of a sequence of n tokens returns n
\* sequences, the i-th (counted from 0) being xs[i..n]: the first is xs, the
\* last is the final token alone, none is empty, and there is none for n = 0.
C8_Suffixes ==
    res.op = "suffixes" =>
        LET xs == res.arg
            n  == Len(xs)
        IN  /\ Len(res.out) = n
            /\ \A i \in 1..n :
                  /\ Len(res.out[i]) = n - i + 1
                  /\ \A j \in 1..(n - i + 1) : res.out[i][j] = xs[i + j - 1]
            /\ n > 0 => res.out[1] = xs /\ res.out[n] = <<xs[n]>>

\* suffixes ran on a sentence of three tokens
C8_Witness ==
    /\ res.op = "suffixes"
    /\ Len(res.arg) = 3
    /\ Len(res.out) = 3

(* ------------------------------- rule.rs ------------------------------- *)

\* the most dimensions of a grid, and the largest size of one dimension
MaxDims == 3

MaxDim == 3

\* the most tuples of a grid handed to index_array
MaxGrid == 27

\* the largest coordinate and the longest list handed to order_by_distance
MaxCoord == 2

MaxListLen == 3

\* usize, kept at UsizeBits bits.  A grid that index_array can hold has fewer
\* tuples than usize::MAX and the sum of a tuple's coordinates is below the
\* number of tuples of its grid, so the sums of coordinate tuples stay in
\* range, in the program as here.
UsizeBits == 6

UsizeModulus == 2 ^ UsizeBits

Ok(v) == [ok |-> TRUE, val |-> v]

Panic(msg) == [ok |-> FALSE, msg |-> msg]

RECURSIVE Sum(_)
\* a.iter().sum() on usize
Sum(a) == IF a = <<>> THEN 0 ELSE (Head(a) + Sum(Tail(a))) % UsizeModulus

RECURSIVE ZipCompare(_, _)
\* the for loop over a.iter().zip(b), and the unreachable!() after it
ZipCompare(a, b) ==
    IF a = <<>> \/ b = <<>>
    THEN "Unreachable"
    ELSE IF Head(a) > Head(b)
         THEN "Greater"
         ELSE IF Head(a) < Head(b)
              THEN "Less"
              ELSE ZipCompare(Tail(a), Tail(b))

\* a comparator that orders by the coordinates alone
CompareLexOnly(a, b) == ZipCompare(a, b)

\* the closure handed to sort_by
Compare(a, b) ==
    LET total_a == Sum(a)
        total_b == Sum(b)
    IN  IF total_a > total_b
        THEN "Greater"
        ELSE IF total_a < total_b
             THEN "Less"
             ELSE ZipCompare(a, b)

RECURSIVE Insert(_, _)
\* one element put in its place in a sorted run, after its equals
Insert(x, run) ==
    IF run = <<>>
    THEN Ok(<<x>>)
    ELSE LET c == Compare(x, Head(run))
         IN  IF c = "Less"
             THEN Ok(<<x>> \o run)
             ELSE IF c = "Greater"
                  THEN LET r == Insert(x, Tail(run))
                       IN  IF r.ok THEN Ok(<<Head(run)>> \o r.val) ELSE r
                  ELSE Panic("There should not be duplicate indices")

RECURSIVE SortBy(_)
\* slice::sort_by, a stable sort, with the closure Compare
SortBy(v) ==
    IF v = <<>>
    THEN Ok(<<>>)
    ELSE LET r == SortBy(SubSeq(v, 1, Len(v) - 1))
         IN  IF r.ok THEN Insert(v[Len(v)], r.val) ELSE r

\* sorted, or the panic of the unreachable!()
OrderByDistance(v) == SortBy(v)

RECURSIVE PartialCartesianSwapped(_, _)
\* a product that runs over b outside and over a inside
PartialCartesianSwapped(a, b) ==
    IF b = <<>>
    THEN <<>>
    ELSE [i \in 1..Len(a) |-> Append(a[i], Head(b))] \o PartialCartesianSwapped(a, Tail(b))

RECURSIVE PartialCartesianNoPush(_, _)
\* a product whose closure leaves out vec.push(y)
PartialCartesianNoPush(a, b) ==
    IF a = <<>>
    THEN <<>>
    ELSE [j \in 1..Len(b) |-> Head(a)] \o PartialCartesianNoPush(Tail(a), b)

RECURSIVE PartialCartesian(_, _)
\* a.into_iter().flat_map(|xs| b.iter().map(|y| xs + [y]))
PartialCartesian(a, b) ==
    IF a = <<>>
    THEN <<>>
    ELSE [j \in 1..Len(b) |-> Append(Head(a), b[j])] \o PartialCartesian(Tail(a), b)

RECURSIVE FoldPartial(_, _)
\* rest.iter().cloned().fold(init, |vec, list| partial_cartesian(vec, list))
FoldPartial(vec, rest) ==
    IF rest = <<>> THEN vec ELSE FoldPartial(PartialCartesian(vec, Head(rest)), Tail(rest))

CartesianProduct(lists) ==
    IF lists = <<>>
    THEN <<>>
    ELSE LET first == Head(lists)
             init  == [i \in 1..Len(first) |-> <<first[i]>>]
         IN  FoldPartial(init, Tail(lists))

\* (0..x).collect()
RangeTo(x) == [i \in 1..x |-> i - 1]

IndexArray(d) == CartesianProduct([i \in 1..Len(d) |-> RangeTo(d[i])])

(* ------------------------ the calls of the enumerator ------------------ *)

RECURSIVE GridSize(_)
GridSize(d) == IF d = <<>> THEN 1 ELSE Head(d) * GridSize(Tail(d))

\* the dims handed to index_array
DimInputs == {d \in SeqsUpTo(0..MaxDim, MaxDims) : GridSize(d) <= MaxGrid}

\* the lists handed to order_by_distance directly: tuples of one length
TupleLens == {1, 2}

ListInputs == UNION {SeqsUpTo([1..k -> 0..MaxCoord], MaxListLen) : k \in TupleLens}

\* the lists handed to cartesian_product directly
ProductInputs == SeqsUpTo(SeqsUpTo({"x", "y"}, 2), 2)

InitRule ==
    /\ \/ dims \in DimInputs /\ indices = <<>>
       \/ dims = <<>> /\ indices \in ListInputs
    /\ tree = Default
    /\ added = {}
    /\ res = Idle
    /\ corpus = <<>>

\* index_array(dims); its result is what a later order_by_distance gets
IndexArrayCall ==
    /\ res = Idle
    /\ indices = <<>>
    /\ indices' = IndexArray(dims)
    /\ res' = [op |-> "index_array", arg |-> dims, out |-> indices']
    /\ UNCHANGED <<tree, added, corpus, dims>>

OrderByDistanceCall ==
    /\ res.op \in {"none", "index_array"}
    /\ res' = [op |-> "order_by_distance", after |-> res.op, arg |-> indices,
               out |-> OrderByDistance(indices)]
    /\ UNCHANGED <<tree, added, corpus, indices, dims>>

CartesianProductCall ==
    /\ res = Idle
    /\ dims = <<>>
    /\ indices = <<>>
    /\ \E lists \in ProductInputs :
          res' = [op |-> "cartesian_product", arg |-> lists, out |-> CartesianProduct(lists)]
    /\ UNCHANGED <<tree, added, corpus, indices, dims>>

NextRule ==
    \/ IndexArrayCall
    \/ OrderByDistanceCall
    \/ CartesianProductCall

SpecRule == InitRule /\ [][NextRule]_vars

(* ---------------------- claims about the enumerator -------------------- *)

\* the integer sum of the coordinates
RECURSIVE Distance(_)
Distance(t) == IF t = <<>> THEN 0 ELSE Head(t) + Distance(Tail(t))

\* a is before b in lexicographic order, the first differing coordinate decides
LexLess(a, b) ==
    \E i \in 1..Len(a) :
        /\ i <= Len(b)
        /\ a[i] < b[i]
        /\ \A j \in 1..(i - 1) : a[j] = b[j]

\* a is before b by the key: the sum, then the coordinates left to right
KeyLess(a, b) ==
    \/ Distance(a) < Distance(b)
    \/ Distance(a) = Distance(b) /\ LexLess(a, b)

\* the number of places of v that hold t
Count(v, t) == Cardinality({i \in DOMAIN v : v[i] = t})

PairwiseDistinct(v) == \A i, j \in DOMAIN v : v[i] = v[j] => i = j

\* C9: order_by_distance is a total reordering: for a list of pairwise
\* distinct coordinate tuples of one length, the output is a permutation of
\* the input in which each tuple is before the next by the key (sum ascending,
\* then the coordinates left to right ascending); the input is left as it was.
C9_OrderByDistance ==
    (res.op = "order_by_distance" /\ PairwiseDistinct(res.arg)) =>
        /\ res.out.ok
        /\ Len(res.out.val) = Len(res.arg)
        /\ \A i \in DOMAIN res.arg : Count(res.out.val, res.arg[i]) = 1
        /\ \A i \in 1..(Len(res.out.val) - 1) : KeyLess(res.out.val[i], res.out.val[i + 1])
        /\ indices = res.arg

\* order_by_distance moved [1,0] before [0,2], which the coordinates alone
\* would put after it
C9_Witness ==
    /\ res.op = "order_by_distance"
    /\ PairwiseDistinct(res.arg)
    /\ res.out.ok
    /\ res.out.val # res.arg
    /\ \E i \in 1..(Len(res.out.val) - 1) :
          res.out.val[i] = <<1, 0>> /\ res.out.val[i + 1] = <<0, 2>>

\* the tuples of the grid of d
Grid(d) == {t \in [1..Len(d) -> 0..MaxDim] : \A i \in 1..Len(d) : t[i] < d[i]}

\* C10: index_array(dims) is the full cartesian product of the ranges: for
\* non-empty dims every tuple t with 0 <= t[i] < dims[i] is there exactly once
\* and nothing else is, in strictly increasing lexicographic order (the last
\* dimension runs fastest); for empty dims, as for cartesian_product of zero
\* lists, the result is the empty sequence; cartesian_product of one list
\* gives one singleton per element, in order.
C10_IndexArray ==
    /\ res.op = "index_array" =>
          IF res.arg = <<>>
          THEN res.out = <<>>
          ELSE /\ \A t \in Grid(res.arg) : Count(res.out, t) = 1
               /\ \A i \in DOMAIN res.out : res.out[i] \in Grid(res.arg)
               /\ \A i \in 1..(Len(res.out) - 1) : LexLess(res.out[i], res.out[i + 1])
    /\ res.op = "cartesian_product" =>
          /\ res.arg = <<>> => res.out = <<>>
          /\ Len(res.arg) = 1 =>
                res.out = [i \in 1..Len(res.arg[1]) |-> <<res.arg[1][i]>>]

\* index_array ran on [3, 3] and gave nine tuples
C10_Witness ==
    /\ res.op = "index_array"
    /\ res.arg = <<3, 3>>
    /\ Len(res.out) = 9
    /\ res.out[2] = <<0, 1>>

(* ---------------------- claims about split_corpus ---------------------- *)

RECURSIVE Flatten(_)
\* the sequences of ss one after the other
Flatten(ss) == IF ss = <<>> THEN <<>> ELSE Head(ss) \o Flatten(Tail(ss))

\* the alphabetic characters of s in order, lowercased
LettersOf(s) ==
    LET kept == SelectSeq(s, IsAlphabetic)
    IN  [i \in 1..Len(kept) |-> ToLowercase(kept[i])]

\* the sentences are in corpus order, without their non-alphabetic characters
\* and in lower case: they hold lowercase letters and spaces only, and their
\* letters, read in order, are the letters of the corpus
OrderedAndCleaned(x, sentences) ==
    /\ \A i \in DOMAIN sentences :
          \A j \in DOMAIN sentences[i] :
             \/ IsWhitespace(sentences[i][j])
             \/ IsAlphabetic(sentences[i][j]) /\ ToLowercase(sentences[i][j]) = sentences[i][j]
    /\ LettersOf(Flatten(sentences)) = LettersOf(x)

\* C11: split_corpus discards empty segments: the list of cleaned sentences it
\* returns holds no empty sentence, and the sentences are in corpus order with
\* the non-alphabetic characters removed and the letters lowercased.
C11_SplitCorpus ==
    res.op = "split_corpus" =>
        /\ \A i \in DOMAIN res.out : res.out[i] # <<>>
        /\ OrderedAndCleaned(corpus, res.out)

\* the non-empty pieces of x between the delimiters
Segments(x) == SelectSeq(SplitOn(x, Delimiters), LAMBDA seg : seg # <<>>)

\* C11 as amended: split_corpus discards the segments that hold no character
\* at all and returns one cleaned sentence for every other segment, in corpus
\* order: the sentence holds lowercase letters and spaces only and its
\* letters are the letters of its segment, lowercased; the sentence of a
\* segment without a letter is empty or blank and is returned all the same.
C11_PerSegment ==
    res.op = "split_corpus" =>
        /\ Len(res.out) = Len(Segments(corpus))
        /\ \A i \in DOMAIN res.out : LettersOf(res.out[i]) = LettersOf(Segments(corpus)[i])
        /\ OrderedAndCleaned(corpus, res.out)

\* split_corpus returned an empty sentence between two sentences with letters
C11_Witness ==
    /\ res.op = "split_corpus"
    /\ Len(res.out) = 3
    /\ res.out[1] # <<>>
    /\ res.out[2] = <<>>
    /\ res.out[3] # <<>>

(* --------------------- the structure of the trie ----------------------- *)

RECURSIVE KeysAreNames(_)
\* every child's key is the child's name, at every depth
KeysAreNames(t) ==
    \A k \in DOMAIN t.children :
        t.children[k].name = k /\ KeysAreNames(t.children[k])

RECURSIVE NamesAreUnique(_)
\* no node has two children of one name, at every depth
NamesAreUnique(t) ==
    \A k \in DOMAIN t.children :
        /\ \A j \in DOMAIN t.children : t.children[j].name = t.children[k].name => j = k
        /\ NamesAreUnique(t.children[k])

\* the non-empty prefixes of the added phrases
IngestedPaths == UNION {{SubSeq(q, 1, n) : n \in 1..Len(q)} : q \in added}

\* C12: the structure of the trie: in every state that add_phrase calls reach
\* from Tree::default() or Tree::new(n), every child's key is the child's
\* name, no node has two children of one name, the nodes below the root are
\* the ingested paths, one node for each (a finite tree), and no step changes
\* the root's name.
C12_Structure ==
    /\ [](/\ KeysAreNames(tree)
          /\ NamesAreUnique(tree)
          /\ AllPaths(tree) \ {<<>>} = IngestedPaths
          /\ tree.name \in {"root", "a"})
    /\ [][tree'.name = tree.name]_vars

\* add_phrase gave a node at depth two its second child
C12_Witness ==
    /\ res.op = "add_phrase"
    /\ res.fresh
    /\ added = {<<"a", "b", "a">>, <<"a", "b", "b">>}
    /\ DOMAIN tree.children["a"].children["b"].children = {"a", "b"}

(* ------------------ order_by_distance after index_array ---------------- *)

\* C13: the unreachable!() of order_by_distance is not reached on the output
\* of index_array: for every dims the tuples of index_array(dims) are pairwise
\* distinct, so no two of them tie on the sum and on every coordinate, and
\* order_by_distance(index_array(dims)) returns without the panic.
C13_NoDuplicateIndices ==
    /\ res.op = "index_array" => PairwiseDistinct(res.out)
    /\ (res.op = "order_by_distance" /\ res.after = "index_array") =>
          /\ res.arg = IndexArray(dims)
          /\ PairwiseDistinct(res.arg)
          /\ \A i, j \in DOMAIN res.arg : i # j => Compare(res.arg[i], res.arg[j]) # "Unreachable"
          /\ res.out.ok

\* order_by_distance sorted the nine tuples of index_array([3, 3]), among
\* them [0, 1] and [1, 0], which tie on the sum
C13_Witness ==
    /\ res.op = "order_by_distance"
    /\ res.after = "index_array"
    /\ dims = <<3, 3>>
    /\ res.out.ok
    /\ res.out.val[2] = <<0, 1>>
    /\ res.out.val[3] = <<1, 0>>

(* ---------------------- add_phrase and phrase order -------------------- *)

RECURSIVE SetToSeq(_)
\* the members of a finite set in one fixed order
SetToSeq(S) ==
    IF S = {} THEN <<>> ELSE LET x == CHOOSE y \in S : TRUE IN <<x>> \o SetToSeq(S \ {x})

\* C14: the trie depends only on the set of phrases added, not on their order
\* or repetition: the tree is the one built from its root by adding the set's
\* phrases once each in one fixed order, whatever order and however often
\* the add_phrase calls added them.
C14_OrderIndependent ==
    tree = AddPhrases(New(tree.name), SetToSeq(added))

\* two different phrases with a common first token were added, the second
\* of them last and for the first time
C14_Witness ==
    /\ res.op = "add_phrase"
    /\ res.fresh
    /\ Cardinality(added) = 2
    /\ \E p, q \in added : p # q /\ p # <<>> /\ q # <<>> /\ p[1] = q[1]

====
